---------------------------- MODULE Spec2Model ----------------------------
(***************************************************************************)
(* The ip-app API server (Express + pg + bcrypt + axios): the process-wide *)
(* `initialized` flag, the two tables users and ip_history, and the five   *)
(* JSON routes, each modelled as a request that advances one awaited call  *)
(* at a time, so that requests interleave exactly where the handlers       *)
(* await.                                                                  *)
(*                                                                         *)
(* A step of a request is: the awaited call completes (a SQL statement     *)
(* takes effect in the database, the geolocation provider answers, bcrypt  *)
(* answers) and the handler's continuation runs up to its next await.      *)
(* Node runs a continuation without interruption, and a continuation       *)
(* touches only process state while a statement touches only the database, *)
(* so joining the two in one step loses no interleaving.                   *)
(***************************************************************************)
EXTENDS Integers, Sequences, FiniteSets, TLC

(***************************************************************************)
(* Bounds of the model.                                                    *)
(***************************************************************************)
\* number of requests that arrive in one run
MaxArrivals == 2
\* last value of the database clock
MaxTime == 1

\* Two requests may be in flight at a time: 1 and 2 name the one that came
\* first and the one that overlaps it.
Req == {1, 2}

(***************************************************************************)
(* JSON values of a request body.  A string is kept as its sequence of     *)
(* characters so that net.isIP and Number() can be computed from it (an    *)
(* e-mail address or a password, which the code never parses, is kept as   *)
(* one token); an array is kept as the sequence of its elements.           *)
(***************************************************************************)
Undefined == [t |-> "undefined", c |-> <<>>, n |-> 0]
Str(chars) == [t |-> "string", c |-> chars, n |-> 0]
Num(k) == [t |-> "number", c |-> <<>>, n |-> k]
Bool(k) == [t |-> "boolean", c |-> <<>>, n |-> k]
Arr(items) == [t |-> "array", c |-> items, n |-> 0]

\* JavaScript's !v (lines 67, 131, 166)
Falsy(v) ==
  \/ v.t = "undefined"
  \/ v.t = "string" /\ v.c = <<>>
  \/ v.t = "number" /\ v.n = 0
  \/ v.t = "boolean" /\ v.n = 0

Digits == {"0", "1", "2", "3", "4", "5", "6", "7", "8", "9"}
HexDigits == Digits \cup {"a", "b", "c", "d", "e", "f", "A", "B", "C", "D", "E", "F"}

DigitVal(ch) ==
  CASE ch = "0" -> 0 [] ch = "1" -> 1 [] ch = "2" -> 2 [] ch = "3" -> 3
    [] ch = "4" -> 4 [] ch = "5" -> 5 [] ch = "6" -> 6 [] ch = "7" -> 7
    [] ch = "8" -> 8 [] ch = "9" -> 9

AllIn(s, set) == \A i \in 1..Len(s) : s[i] \in set

RECURSIVE DecVal(_)
DecVal(s) == IF s = <<>> THEN 0
             ELSE 10 * DecVal(SubSeq(s, 1, Len(s) - 1)) + DigitVal(s[Len(s)])

\* the pieces of s between the occurrences of sep ("a..b" has an empty piece)
RECURSIVE Split(_, _)
Split(s, sep) ==
  IF \A i \in 1..Len(s) : s[i] # sep THEN <<s>>
  ELSE LET i == CHOOSE k \in 1..Len(s) :
                  s[k] = sep /\ \A j \in 1..(k - 1) : s[j] # sep
       IN <<SubSeq(s, 1, i - 1)>> \o Split(SubSeq(s, i + 1, Len(s)), sep)

(***************************************************************************)
(* net.isIP (lines 133, 167): 4 for dotted-decimal IPv4, 6 for IPv6, else  *)
(* 0, as Node decides it.                                                  *)
(***************************************************************************)
\* one IPv4 segment: 0..255 with no leading zero
V4Seg(p) ==
  /\ Len(p) \in 1..3
  /\ AllIn(p, Digits)
  /\ (Len(p) > 1 => p[1] # "0")
  /\ DecVal(p) <= 255

IsIPv4(s) ==
  LET parts == Split(s, ".")
  IN Len(parts) = 4 /\ \A i \in 1..4 : V4Seg(parts[i])

\* one IPv6 group: 1..4 hex digits
V6Seg(p) == Len(p) \in 1..4 /\ AllIn(p, HexDigits)

\* how many 16-bit groups a colon-separated run spells, or -1 when it is
\* malformed; only its last piece may be a dotted IPv4 address (2 groups)
V6Groups(s, v4Tail) ==
  IF s = <<>> THEN 0
  ELSE LET parts == Split(s, ":")
           k == Len(parts)
           lastV4 == v4Tail /\ IsIPv4(parts[k])
       IN IF /\ \A i \in 1..(k - 1) : V6Seg(parts[i])
             /\ (lastV4 \/ V6Seg(parts[k]))
          THEN IF lastV4 THEN k + 1 ELSE k
          ELSE -1

IsIPv6(s0) ==
  LET zoned == Split(s0, "%")
      \* an optional %zone of at least one character
      zoneOk == \/ Len(zoned) = 1
                \/ Len(zoned) >= 2 /\ zoned[2] # <<>>
      s == zoned[1]
      dbl == {i \in 1..(Len(s) - 1) : s[i] = ":" /\ s[i + 1] = ":"}
  IN /\ zoneOk
     /\ IF dbl = {}
        THEN V6Groups(s, TRUE) = 8
        ELSE LET i == CHOOSE k \in dbl : \A j \in dbl : k <= j
                 left == V6Groups(SubSeq(s, 1, i - 1), FALSE)
                 right == V6Groups(SubSeq(s, i + 2, Len(s)), TRUE)
             IN left >= 0 /\ right >= 0 /\ left + right <= 7

isIP(v) ==
  IF v.t # "string" THEN 0
  ELSE IF IsIPv4(v.c) THEN 4
  ELSE IF IsIPv6(v.c) THEN 6
  ELSE 0

(***************************************************************************)
(* Number(id) and the filter of line 197.  A JavaScript number is kept as  *)
(* its kind ("int", "frac", "NaN") and, for an integer, its value.         *)
(***************************************************************************)
JsInt(k) == [k |-> "int", v |-> k]
JsFrac == [k |-> "frac", v |-> 0]
JsNaN == [k |-> "NaN", v |-> 0]

\* Number() of a string: decimal literals with an optional sign and an
\* optional fraction; the empty string is 0; anything else is NaN
StringToNumber(s) ==
  LET neg == s # <<>> /\ s[1] = "-"
      body == IF neg THEN Tail(s) ELSE s
      parts == Split(body, ".")
      sign(k) == IF neg THEN 0 - k ELSE k
  IN IF s = <<>> THEN JsInt(0)
     ELSE IF Len(parts) = 1 /\ body # <<>> /\ AllIn(body, Digits)
          THEN JsInt(sign(DecVal(body)))
     ELSE IF /\ Len(parts) = 2
             /\ parts[1] # <<>> /\ AllIn(parts[1], Digits)
             /\ AllIn(parts[2], Digits)
          THEN IF AllIn(parts[2], {"0"}) THEN JsInt(sign(DecVal(parts[1])))
               ELSE JsFrac
     ELSE JsNaN

\* Number(id) (line 196)
Number(v) ==
  CASE v.t = "number" -> JsInt(v.n)
    [] v.t = "boolean" -> JsInt(v.n)
    [] v.t = "string" -> StringToNumber(v.c)
    [] OTHER -> JsNaN

RECURSIVE ParsedIds(_)
\* ids.map(Number).filter(id => Number.isInteger(id) && id > 0) (lines 195-197)
ParsedIds(ids) ==
  IF ids = <<>> THEN <<>>
  ELSE LET x == Number(Head(ids))
       IN (IF x.k = "int" /\ x.v > 0 THEN <<x.v>> ELSE <<>>)
            \o ParsedIds(Tail(ids))


(***************************************************************************)
(* The requests the model draws from: every route, with bodies that take   *)
(* each branch of its validation.                                          *)
(***************************************************************************)
SeedEmail == <<"test@test.com">>
SeedPassword == <<"1234">>

\* {email, password}: a field missing, the seed account with the right
\* password, with a wrong one and with the number 1234, and an unknown e-mail
Credentials ==
  { <<Undefined, Str(SeedPassword)>>,
    <<Str(SeedEmail), Undefined>>,
    <<Str(SeedEmail), Str(<<>>)>>,
    <<Str(SeedEmail), Str(SeedPassword)>>,
    <<Str(SeedEmail), Str(<<"12345">>)>>,
    <<Str(SeedEmail), Num(1234)>>,
    <<Str(<<"nobody@test.com">>), Str(SeedPassword)>> }

Ip4 == <<"8", ".", "8", ".", "8", ".", "8">>
Ip6 == <<":", ":", "A">>
Ips == {Undefined, Str(Ip4), Str(Ip6),
        Str(<<"0", "8", ".", "8", ".", "8", ".", "8">>),
        Str(<<"1", ":", ":", "2", ":", ":", "3">>)}

ToLower(s) ==
  [i \in 1..Len(s) |->
     CASE s[i] = "A" -> "a" [] s[i] = "B" -> "b" [] s[i] = "C" -> "c"
       [] s[i] = "D" -> "d" [] s[i] = "E" -> "e" [] s[i] = "F" -> "f"
       [] OTHER -> s[i]]

\* the addresses the geolocation provider may name for the caller of /geo
ProviderIps == {Ip4, ToLower(Ip6)}
\* the spellings in which it may name the address it was asked about: the one
\* of the request or its own
ProviderSpellings(ip) == {ip, ToLower(ip)}

IdLists == {Undefined, Arr(<<>>), Arr(<<Str(<<"x">>), Num(0)>>),
            Arr(<<Num(1)>>), Arr(<<Str(<<"2">>), Num(1)>>),
            Arr(<<Num(3), Str(<<"1", ".", "5">>)>>)}

NoBody == [email |-> Undefined, password |-> Undefined,
           ip |-> Undefined, ids |-> Undefined]
Bodies(route) ==
  CASE route = "login" ->
         {[NoBody EXCEPT !.email = c[1], !.password = c[2]] : c \in Credentials}
    [] route = "search" -> {[NoBody EXCEPT !.ip = i] : i \in Ips}
    [] route = "lookup" -> {[NoBody EXCEPT !.ip = i] : i \in Ips \ {Str(Ip6)}}
    [] route = "delete" -> {[NoBody EXCEPT !.ids = l] : l \in IdLists}
    [] OTHER -> {NoBody}

Routes == {"login", "home", "search", "lookup", "delete"}

(***************************************************************************)
(* State.                                                                  *)
(***************************************************************************)
VARIABLES
  initialized,  \* the process-wide flag (line 24)
  tables,       \* the tables that exist in the database
  users,        \* the rows of users
  usersSeq,     \* last value of the sequence behind users.id
  ip_history,   \* the rows of ip_history
  historySeq,   \* last value of the sequence behind ip_history.id
  now,          \* the database clock, NOW()
  pc,           \* where each request stands: the call it awaits
  route,        \* the route of each request
  body,         \* req.body of each request
  loc,          \* the handler's locals: ipData, user
  res,          \* the response sent
  obs           \* what an observer of the request records: when it started
                \* (of a search, whose history rows are dated), the calls it
                \* made, the table versions it wrote and read

\* what an observer of the whole process counts
VARIABLES
  histVersion,  \* the INSERT and DELETE statements ip_history has undergone
  flagSets,     \* the executions of `initialized = true` (line 55)
  arrivals      \* the requests that have arrived

vars == <<initialized, tables, users, usersSeq, ip_history, historySeq, now,
          pc, route, body, loc, res, obs, histVersion, flagSets, arrivals>>
db == <<tables, users, usersSeq, ip_history, historySeq, histVersion>>

NoRes == [status |-> 0, has |-> {}, user |-> <<>>, ipData |-> <<>>,
          ip_history |-> <<>>]
NoLoc == [ipData |-> <<>>, user |-> <<>>]
NoObs == [startedAt |-> 0, calls |-> {}, geoOk |-> FALSE,
          vPre |-> -1, vRead |-> -1, added |-> 0, removed |-> {}]

\* bcrypt.hash(password, 10) (line 47): a hash is told apart from the password
\* it is of, and bcrypt.compare alone looks inside
Hash(plain) == [bcrypt |-> plain]

\* what the database may hold when the process starts: nothing (the first
\* deployment), or the tables, the seed user and the history of an earlier
\* process (a serverless cold start, line 27)
PriorDb ==
  { [tables |-> {}, users |-> {}, usersSeq |-> 0, ip_history |-> {},
     historySeq |-> 0],
    [tables |-> {"users", "ip_history"},
     users |-> {[id |-> 1, email |-> SeedEmail,
                 password |-> Hash(SeedPassword)]},
     usersSeq |-> 1,
     ip_history |-> {[id |-> 1, ip_address |-> Ip4, created_at |-> -2],
                     [id |-> 2, ip_address |-> Ip6, created_at |-> -1]},
     historySeq |-> 2] }

Init ==
  /\ initialized = FALSE
  /\ \E d \in PriorDb :
       /\ tables = d.tables
       /\ users = d.users
       /\ usersSeq = d.usersSeq
       /\ ip_history = d.ip_history
       /\ historySeq = d.historySeq
  /\ histVersion = 0
  /\ flagSets = 0
  /\ arrivals = 0
  /\ now = 0
  /\ pc = [r \in Req |-> "idle"]
  /\ route = [r \in Req |-> "none"]
  /\ body = [r \in Req |-> NoBody]
  /\ loc = [r \in Req |-> NoLoc]
  /\ res = [r \in Req |-> NoRes]
  /\ obs = [r \in Req |-> NoObs]

(***************************************************************************)
(* Helpers of the handlers.                                                *)
(***************************************************************************)
\* SELECT ... FROM ip_history ORDER BY created_at DESC (lines 112, 151, 208):
\* every row once, newest first; rows of equal created_at in any order
OrderByCreatedAtDesc(rows) ==
  LET n == Cardinality(rows)
  IN { s \in [1..n -> rows] :
         /\ \A i, j \in 1..n : i # j => s[i] # s[j]
         /\ \A i \in 1..(n - 1) : s[i].created_at >= s[i + 1].created_at }

\* The steps that touch nothing the requests share: handing over a response,
\* and the calls to bcrypt and to the geolocation provider, which read and
\* write only the request's own locals.  Such a step commutes with every step
\* of another request and with the clock, so it is taken as soon as it is
\* due: the model leaves out only interleavings that differ from a kept one
\* in the order of independent steps.
OwnPcs == {"done", "hash", "loginCompare", "homeGeo", "searchGeo", "lookupGeo"}
Responding == \E r \in Req : pc[r] \in OwnPcs

\* request r stands at the call `label`, which now completes
At(r, label) == pc[r] = label /\ \A q \in Req \ {r} : pc[q] \notin OwnPcs

\* res.status(code).json(...) and return
Respond(r, response) ==
  /\ res' = [res EXCEPT ![r] = response]
  /\ pc' = [pc EXCEPT ![r] = "done"]

Error(code) == [NoRes EXCEPT !.status = code, !.has = {"error"}]

Called(r, call) == obs' = [obs EXCEPT ![r].calls = @ \cup {call}]

\* the first call a handler awaits once initDb has returned
AfterInit(rt) ==
  CASE rt = "login" -> "loginSelect"
    [] rt = "home" -> "homeGeo"
    [] rt = "search" -> "searchGeo"
    [] rt = "lookup" -> "lookupGeo"
    [] rt = "delete" -> "deleteExec"


(***************************************************************************)
(* initDb (lines 26-56).                                                   *)
(***************************************************************************)
\* `await initDb()` up to its first await: with the flag set it returns at
\* once and the handler goes on to its own first call; otherwise the first
\* CREATE TABLE is sent (lines 28-31)
initDb(rt) == IF initialized THEN AfterInit(rt) ELSE "createUsers"

\* a request arrives: the handler runs up to its first await
Arrive(r, rt, b, rejected) ==
  /\ At(r, "idle")
  /\ \A q \in Req : q < r => pc[q] # "idle"
  /\ arrivals < MaxArrivals
  /\ arrivals' = arrivals + 1
  /\ route' = [route EXCEPT ![r] = rt]
  /\ body' = [body EXCEPT ![r] = b]
  /\ obs' = [obs EXCEPT ![r].startedAt = IF rt = "search" THEN now ELSE 0]
  /\ IF rejected
     THEN Respond(r, Error(400))
     ELSE /\ pc' = [pc EXCEPT ![r] = initDb(rt)]
          /\ res' = res
  /\ UNCHANGED <<initialized, flagSets, db, now, loc>>

\* CREATE TABLE IF NOT EXISTS users (lines 31-37)
CreateUsers(r) ==
  /\ At(r, "createUsers")
  /\ tables' = tables \cup {"users"}
  /\ pc' = [pc EXCEPT ![r] = "createHistory"]
  /\ Called(r, "CREATE users")
  /\ UNCHANGED <<initialized, flagSets, arrivals, users, usersSeq, ip_history, historySeq,
                 histVersion, now, route, body, loc, res>>

\* CREATE TABLE IF NOT EXISTS ip_history (lines 39-45)
CreateHistory(r) ==
  /\ At(r, "createHistory")
  /\ tables' = tables \cup {"ip_history"}
  /\ pc' = [pc EXCEPT ![r] = "hash"]
  /\ Called(r, "CREATE ip_history")
  /\ UNCHANGED <<initialized, flagSets, arrivals, users, usersSeq, ip_history, historySeq,
                 histVersion, now, route, body, loc, res>>

\* bcrypt.hash("1234", 10) (line 47)
BcryptHash(r) ==
  /\ At(r, "hash")
  /\ loc' = [loc EXCEPT ![r].user =
               <<[id |-> 0, email |-> SeedEmail,
                  password |-> Hash(SeedPassword)]>>]
  /\ pc' = [pc EXCEPT ![r] = "seedInsert"]
  /\ Called(r, "bcrypt.hash")
  /\ UNCHANGED <<initialized, flagSets, arrivals, db, now, route, body, res>>

\* A faulty variant: the seed INSERT without its ON CONFLICT clause on a table without
\* its UNIQUE constraint: the row is added whatever is there
InsertSeedUserAlways(row) == users \cup {[row EXCEPT !.id = usersSeq + 1]}

\* INSERT INTO users ... ON CONFLICT (email) DO NOTHING (lines 48-53): the
\* row gets the next id; a row of that e-mail already there keeps the table
\* as it is (the sequence value is spent all the same)
InsertSeedUser(row) ==
  IF \E u \in users : u.email = row.email
  THEN users
  ELSE users \cup {[row EXCEPT !.id = usersSeq + 1]}

\* the seed INSERT completes, the flag is set and initDb returns (lines 48-56)
SeedInsert(r) ==
  /\ At(r, "seedInsert")
  /\ users' = InsertSeedUser(loc[r].user[1])
  /\ usersSeq' = usersSeq + 1
  /\ initialized' = TRUE
  /\ flagSets' = flagSets + 1
  /\ loc' = [loc EXCEPT ![r].user = <<>>]
  /\ pc' = [pc EXCEPT ![r] = AfterInit(route[r])]
  /\ obs' = [obs EXCEPT ![r].calls = @ \cup {"INSERT users", "initialized = true"}]
  /\ UNCHANGED <<arrivals, tables, ip_history, historySeq, histVersion, now,
                 route, body, res>>

(***************************************************************************)
(* POST /api/login (lines 64-96).                                          *)
(***************************************************************************)
\* !email || !password (line 67)
LoginRejects(b) == Falsy(b.email) \/ Falsy(b.password)

Login(r) == \E b \in Bodies("login") : Arrive(r, "login", b, LoginRejects(b))

\* SELECT id, email, password FROM users WHERE email = $1 (lines 75-84)
LoginSelect(r) ==
  /\ At(r, "loginSelect")
  /\ LET found == {u \in users : u.email = body[r].email.c}
     IN IF found = {}
        THEN /\ Respond(r, Error(401))
             /\ loc' = loc
        ELSE /\ \E u \in found : loc' = [loc EXCEPT ![r].user = <<u>>]
             /\ pc' = [pc EXCEPT ![r] = "loginCompare"]
             /\ res' = res
  /\ Called(r, "SELECT users")
  /\ UNCHANGED <<initialized, flagSets, arrivals, db, now, route, body>>

\* bcrypt.compare(password, user.password) (line 85): it rejects data that is
\* not a string, and otherwise tells whether the hash is of that password
BcryptCompare(password, hash) ==
  IF password.t # "string" THEN "throws"
  ELSE IF hash.bcrypt = password.c THEN "true" ELSE "false"

\* lines 85-95
LoginCompare(r) ==
  /\ At(r, "loginCompare")
  /\ LET user == loc[r].user[1]
         valid == BcryptCompare(body[r].password, user.password)
     IN Respond(r,
          CASE valid = "throws" -> Error(500)
            [] valid = "false" -> Error(401)
            [] valid = "true" ->
                 [NoRes EXCEPT !.status = 200, !.has = {"message", "user"},
                    !.user = <<[id |-> user.id, email |-> user.email]>>])
  /\ Called(r, "bcrypt.compare")
  /\ UNCHANGED <<initialized, flagSets, arrivals, db, now, route, body, loc>>


(***************************************************************************)
(* The geolocation provider: axios.get(ipInfoUrl) either rejects or        *)
(* resolves with the provider's JSON body, which is passed on verbatim.    *)
(***************************************************************************)
GeoAnswers(named) == {<<>>} \cup {<<[ip |-> x]>> : x \in named}

(***************************************************************************)
(* GET /api/home (lines 99-125).                                           *)
(***************************************************************************)
Home(r) == Arrive(r, "home", NoBody, FALSE)

\* axios.get(ipInfoUrl) (lines 109-110)
HomeGeo(r) ==
  /\ At(r, "homeGeo")
  /\ \E answer \in GeoAnswers(ProviderIps) :
       IF answer = <<>>
       THEN /\ Respond(r, Error(500))
            /\ loc' = loc
            /\ obs' = [obs EXCEPT ![r].calls = @ \cup {"geo"}]
       ELSE /\ loc' = [loc EXCEPT ![r].ipData = answer]
            /\ pc' = [pc EXCEPT ![r] = "homeSelect"]
            /\ res' = res
            /\ obs' = [obs EXCEPT ![r].calls = @ \cup {"geo"},
                                  ![r].geoOk = TRUE]
  /\ UNCHANGED <<initialized, flagSets, arrivals, db, now, route, body>>

\* the history SELECT and the response (lines 112-120)
HomeSelect(r) ==
  /\ At(r, "homeSelect")
  /\ \E rows \in OrderByCreatedAtDesc(ip_history) :
       Respond(r, [NoRes EXCEPT !.status = 200,
                     !.has = {"message", "ipData", "ip_history"},
                     !.ipData = loc[r].ipData, !.ip_history = rows])
  /\ obs' = [obs EXCEPT ![r].calls = @ \cup {"SELECT ip_history"},
                        ![r].vRead = histVersion]
  /\ UNCHANGED <<initialized, flagSets, arrivals, db, now, route, body, loc>>

(***************************************************************************)
(* POST /api/home/search (lines 128-160).                                  *)
(***************************************************************************)
\* A faulty variant: the search route without its format check of line 133
SearchRejectsOnlyMissing(b) == Falsy(b.ip)

\* !ip, then !net.isIP(ip) (lines 131-133)
SearchRejects(b) == Falsy(b.ip) \/ isIP(b.ip) = 0

Search(r) == \E b \in Bodies("search") : Arrive(r, "search", b, SearchRejects(b))

\* axios.get(ipInfoUrl) (lines 143-144)
SearchGeo(r) ==
  /\ At(r, "searchGeo")
  /\ \E answer \in GeoAnswers(ProviderSpellings(body[r].ip.c)) :
       IF answer = <<>>
       THEN /\ Respond(r, Error(500))
            /\ loc' = loc
            /\ obs' = [obs EXCEPT ![r].calls = @ \cup {"geo"}]
       ELSE /\ loc' = [loc EXCEPT ![r].ipData = answer]
            /\ pc' = [pc EXCEPT ![r] = "searchInsert"]
            /\ res' = res
            /\ obs' = [obs EXCEPT ![r].calls = @ \cup {"geo"},
                                  ![r].geoOk = TRUE]
  /\ UNCHANGED <<initialized, flagSets, arrivals, db, now, route, body>>

\* A faulty variant: the INSERT stores the address of the request, not the one the
\* provider answered with
SearchInsertRequested(r) ==
  /\ At(r, "searchInsert")
  /\ ip_history' = ip_history \cup
       {[id |-> historySeq + 1, ip_address |-> body[r].ip.c,
         created_at |-> now]}
  /\ historySeq' = historySeq + 1
  /\ histVersion' = histVersion + 1
  /\ pc' = [pc EXCEPT ![r] = "searchSelect"]
  /\ obs' = [obs EXCEPT ![r].calls = @ \cup {"INSERT ip_history"},
                        ![r].vPre = histVersion,
                        ![r].added = @ + 1]
  /\ UNCHANGED <<initialized, flagSets, arrivals, tables, users, usersSeq, now,
                 route, body, loc, res>>

\* A faulty variant: the INSERT runs twice
SearchInsertTwice(r) ==
  /\ At(r, "searchInsert")
  /\ ip_history' = ip_history \cup
       {[id |-> historySeq + k, ip_address |-> loc[r].ipData[1].ip,
         created_at |-> now] : k \in {1, 2}}
  /\ historySeq' = historySeq + 2
  /\ histVersion' = histVersion + 2
  /\ pc' = [pc EXCEPT ![r] = "searchSelect"]
  /\ obs' = [obs EXCEPT ![r].calls = @ \cup {"INSERT ip_history"},
                        ![r].vPre = histVersion,
                        ![r].added = @ + 2]
  /\ UNCHANGED <<initialized, flagSets, arrivals, tables, users, usersSeq, now,
                 route, body, loc, res>>

\* A faulty variant: the history is read when the geolocation answer arrives and kept;
\* the INSERT follows later and the response carries the rows read before it
SearchInsertAfterRead(r) ==
  \/ /\ At(r, "searchInsert")
     /\ \E rows \in OrderByCreatedAtDesc(ip_history) :
          res' = [res EXCEPT ![r].ip_history = rows]
     /\ pc' = [pc EXCEPT ![r] = "searchInsertLate"]
     /\ obs' = [obs EXCEPT ![r].calls = @ \cup {"SELECT ip_history"},
                           ![r].vRead = histVersion]
     /\ UNCHANGED <<initialized, flagSets, arrivals, db, now, route, body, loc>>
  \/ /\ At(r, "searchInsertLate")
     /\ ip_history' = ip_history \cup
          {[id |-> historySeq + 1, ip_address |-> loc[r].ipData[1].ip,
            created_at |-> now]}
     /\ historySeq' = historySeq + 1
     /\ histVersion' = histVersion + 1
     /\ Respond(r, [res[r] EXCEPT !.status = 200,
                      !.has = {"message", "ipData", "ip_history"},
                      !.ipData = loc[r].ipData])
     /\ obs' = [obs EXCEPT ![r].calls = @ \cup {"INSERT ip_history"},
                           ![r].vPre = histVersion,
                           ![r].added = @ + 1]
     /\ UNCHANGED <<initialized, flagSets, arrivals, tables, users, usersSeq,
                    now, route, body, loc>>

\* INSERT INTO ip_history (ip_address, created_at) VALUES ($1, NOW())
\* (lines 146-149)
SearchInsert(r) ==
  /\ At(r, "searchInsert")
  /\ ip_history' = ip_history \cup
       {[id |-> historySeq + 1, ip_address |-> loc[r].ipData[1].ip,
         created_at |-> now]}
  /\ historySeq' = historySeq + 1
  /\ histVersion' = histVersion + 1
  /\ pc' = [pc EXCEPT ![r] = "searchSelect"]
  /\ obs' = [obs EXCEPT ![r].calls = @ \cup {"INSERT ip_history"},
                        ![r].vPre = histVersion,
                        ![r].added = @ + 1]
  /\ UNCHANGED <<initialized, flagSets, arrivals, tables, users, usersSeq, now, route, body,
                 loc, res>>

\* the history SELECT and the response (lines 151-155)
SearchSelect(r) ==
  /\ At(r, "searchSelect")
  /\ \E rows \in OrderByCreatedAtDesc(ip_history) :
       Respond(r, [NoRes EXCEPT !.status = 200,
                     !.has = {"message", "ipData", "ip_history"},
                     !.ipData = loc[r].ipData, !.ip_history = rows])
  /\ obs' = [obs EXCEPT ![r].calls = @ \cup {"SELECT ip_history"},
                        ![r].vRead = histVersion]
  /\ UNCHANGED <<initialized, flagSets, arrivals, db, now, route, body, loc>>

(***************************************************************************)
(* POST /api/home/lookup (lines 163-185).                                  *)
(***************************************************************************)
\* lines 166-167
LookupRejects(b) == Falsy(b.ip) \/ isIP(b.ip) = 0

Lookup(r) == \E b \in Bodies("lookup") : Arrive(r, "lookup", b, LookupRejects(b))

\* A faulty variant: the lookup route saves the address like the search route
LookupGeoSaving(r) ==
  /\ At(r, "lookupGeo")
  /\ \E answer \in GeoAnswers(ProviderSpellings(body[r].ip.c)) :
       IF answer = <<>>
       THEN /\ Respond(r, Error(500))
            /\ obs' = [obs EXCEPT ![r].calls = @ \cup {"geo"}]
            /\ UNCHANGED <<ip_history, historySeq, histVersion>>
       ELSE /\ Respond(r, [NoRes EXCEPT !.status = 200,
                             !.has = {"message", "ipData"},
                             !.ipData = answer])
            /\ obs' = [obs EXCEPT ![r].calls = @ \cup {"geo"},
                                  ![r].geoOk = TRUE]
            /\ ip_history' = ip_history \cup
                 {[id |-> historySeq + 1, ip_address |-> answer[1].ip,
                   created_at |-> now]}
            /\ historySeq' = historySeq + 1
            /\ histVersion' = histVersion + 1
  /\ UNCHANGED <<initialized, flagSets, arrivals, tables, users, usersSeq, now,
                 route, body, loc>>

\* axios.get(ipInfoUrl) and the response (lines 177-184)
LookupGeo(r) ==
  /\ At(r, "lookupGeo")
  /\ \E answer \in GeoAnswers(ProviderSpellings(body[r].ip.c)) :
       IF answer = <<>>
       THEN /\ Respond(r, Error(500))
            /\ obs' = [obs EXCEPT ![r].calls = @ \cup {"geo"}]
       ELSE /\ Respond(r, [NoRes EXCEPT !.status = 200,
                             !.has = {"message", "ipData"},
                             !.ipData = answer])
            /\ obs' = [obs EXCEPT ![r].calls = @ \cup {"geo"},
                                  ![r].geoOk = TRUE]
  /\ UNCHANGED <<initialized, flagSets, arrivals, db, now, route, body, loc>>

(***************************************************************************)
(* DELETE /api/home/history (lines 188-220).                               *)
(***************************************************************************)
\* A faulty variant: the delete route without the check of lines 199-201
DeleteRejectsUnparsed(b) ==
  \/ b.ids.t # "array"
  \/ Len(b.ids.c) = 0

\* lines 191-201
DeleteRejects(b) ==
  \/ b.ids.t # "array"
  \/ Len(b.ids.c) = 0
  \/ Len(ParsedIds(b.ids.c)) = 0

DeleteHistory(r) ==
  \E b \in Bodies("delete") : Arrive(r, "delete", b, DeleteRejects(b))

\* A faulty variant: WHERE id = $1 with the first id only
DeleteWhereFirstId(parsedIds) == {h \in ip_history : h.id # parsedIds[1]}

\* the rows DELETE FROM ip_history WHERE id = ANY($1::int[]) leaves (line 206)
DeleteWhereIdAny(parsedIds) ==
  {h \in ip_history : \A i \in 1..Len(parsedIds) : h.id # parsedIds[i]}

\* line 206
DeleteExec(r) ==
  /\ At(r, "deleteExec")
  /\ ip_history' = DeleteWhereIdAny(ParsedIds(body[r].ids.c))
  /\ histVersion' = histVersion + 1
  /\ pc' = [pc EXCEPT ![r] = "deleteSelect"]
  /\ obs' = [obs EXCEPT ![r].calls = @ \cup {"DELETE ip_history"},
                        ![r].vPre = histVersion,
                        ![r].removed = ip_history \ ip_history']
  /\ UNCHANGED <<initialized, flagSets, arrivals, tables, users, usersSeq, historySeq, now,
                 route, body, loc, res>>

\* the history SELECT and the response (lines 208-215)
DeleteSelect(r) ==
  /\ At(r, "deleteSelect")
  /\ \E rows \in OrderByCreatedAtDesc(ip_history) :
       Respond(r, [NoRes EXCEPT !.status = 200,
                     !.has = {"message", "ip_history"},
                     !.ip_history = rows])
  /\ obs' = [obs EXCEPT ![r].calls = @ \cup {"SELECT ip_history"},
                        ![r].vRead = histVersion]
  /\ UNCHANGED <<initialized, flagSets, arrivals, db, now, route, body, loc>>

(***************************************************************************)
(* The environment.                                                        *)
(***************************************************************************)
\* the database clock advances (as long as a request may still read it)
Tick ==
  /\ ~Responding
  /\ now < MaxTime
  /\ \/ arrivals < MaxArrivals
     \/ \E r \in Req : route[r] = "search"
  /\ now' = now + 1
  /\ UNCHANGED <<initialized, flagSets, arrivals, db, pc, route, body, loc, res, obs>>

\* the calls that are SQL statements
StatementPcs == {"createUsers", "createHistory", "seedInsert", "loginSelect",
                 "homeSelect", "searchInsert", "searchSelect", "deleteExec",
                 "deleteSelect"}

\* the response is on its way and the handler has returned: the request's
\* objects are dropped
Close(r) ==
  /\ At(r, "done")
  /\ pc' = [pc EXCEPT ![r] = "idle"]
  /\ route' = [route EXCEPT ![r] = "none"]
  /\ body' = [body EXCEPT ![r] = NoBody]
  /\ loc' = [loc EXCEPT ![r] = NoLoc]
  /\ res' = [res EXCEPT ![r] = NoRes]
  /\ obs' = [obs EXCEPT ![r] = NoObs]
  /\ UNCHANGED <<initialized, flagSets, arrivals, db, now>>

\* a statement fails (the connection drops, the server is down): pool.query
\* rejects, the statement has no effect, and the handler's catch answers 500
\* (lines 92-95, 121-124, 156-159, 181-184, 216-219)
QueryFails(r) ==
  /\ pc[r] \in StatementPcs
  /\ ~Responding
  /\ Respond(r, Error(500))
  /\ obs' = [obs EXCEPT ![r].calls = @ \cup {"failed statement"}]
  /\ UNCHANGED <<initialized, flagSets, arrivals, db, now, route, body, loc>>

\* the server with a database whose statements all succeed
Serve ==
  \/ Tick
  \/ \E r \in Req :
       \/ Login(r) \/ LoginSelect(r) \/ LoginCompare(r)
       \/ Home(r) \/ HomeGeo(r) \/ HomeSelect(r)
       \/ Search(r) \/ SearchGeo(r) \/ SearchInsert(r) \/ SearchSelect(r)
       \/ Lookup(r) \/ LookupGeo(r)
       \/ DeleteHistory(r) \/ DeleteExec(r) \/ DeleteSelect(r)
       \/ CreateUsers(r) \/ CreateHistory(r) \/ BcryptHash(r) \/ SeedInsert(r)
       \/ Close(r)

Next == Serve \/ \E r \in Req : QueryFails(r)

\* the server and a database any statement of which may fail
Spec == Init /\ [][Next]_vars

\* the server and a database that never fails
SpecReliable == Init /\ [][Serve]_vars

(***************************************************************************)
(* The properties.                                                         *)
(***************************************************************************)
Answered(r, rt) == route[r] = rt /\ pc[r] = "done"

\* request r leaves the call `from` in this step, for `to`
Moves(r, from, to) == pc[r] = from /\ pc'[r] = to
Leaves(r, from) == pc[r] = from /\ pc'[r] # from

IsNewestFirst(list) ==
  \A i \in 1..(Len(list) - 1) : list[i].created_at >= list[i + 1].created_at

\* list holds every row of the table once
ListsTheTable(list) ==
  /\ Len(list) = Cardinality(ip_history)
  /\ {list[i] : i \in 1..Len(list)} = ip_history

\* the ids a delete request names, after coercion
IdsOf(r) == LET p == ParsedIds(body[r].ids.c) IN {p[i] : i \in 1..Len(p)}

\* no other statement changed ip_history between the INSERT of r and its
\* re-read
Undisturbed(r) == obs[r].vRead = obs[r].vPre + 1

---------------------------------------------------------------------------
\* C1: no step of a lookup request, whatever its input and whatever its
\* outcome (200, 400 or 500), changes the rows of ip_history.
LookupNeverChangesHistory ==
  [][\A r \in Req :
       ((route[r] = "lookup" \/ route'[r] = "lookup") /\ pc'[r] # pc[r])
         => ip_history' = ip_history]_vars

\* a lookup has been answered 200 while the history holds rows
LookupAnsweredOverHistory ==
  \E r \in Req :
    Answered(r, "lookup") /\ res[r].status = 200 /\ ip_history # {}

---------------------------------------------------------------------------
\* C2, as claimed: after a search answered 200 for IP x, the head of the
\* returned ip_history has ip_address = x and a created_at not earlier than
\* the start of the request, under every interleaving.
SearchHeadIsRequestedIp ==
  \A r \in Req :
    (Answered(r, "search") /\ res[r].status = 200) =>
      /\ Len(res[r].ip_history) >= 1
      /\ res[r].ip_history[1].ip_address = body[r].ip.c
      /\ res[r].ip_history[1].created_at >= obs[r].startedAt

\* C2, as amended: after a search answered 200, if no other request's INSERT
\* or DELETE ran between this request's INSERT and its re-read, and no other
\* returned row carries the newest created_at as well, then the head of the
\* returned ip_history has the ip the provider answered with (ipData.ip of
\* the same response) and a created_at not earlier than the start of the
\* request.
SearchHeadIsOwnRow ==
  \A r \in Req :
    ( /\ Answered(r, "search") /\ res[r].status = 200
      /\ Undisturbed(r)
      /\ Len(res[r].ip_history) >= 2 =>
           res[r].ip_history[1].created_at > res[r].ip_history[2].created_at )
    => /\ Len(res[r].ip_history) >= 1
       /\ res[r].ip_history[1].ip_address = res[r].ipData[1].ip
       /\ res[r].ip_history[1].created_at >= obs[r].startedAt

\* an undisturbed search answered 200 over older rows, for an address the
\* provider spelled otherwise
SearchAnsweredOverOlderRows ==
  \E r \in Req :
    /\ Answered(r, "search") /\ res[r].status = 200
    /\ Undisturbed(r)
    /\ Len(res[r].ip_history) >= 2
    /\ res[r].ip_history[1].created_at > res[r].ip_history[2].created_at
    /\ res[r].ipData[1].ip # body[r].ip.c

---------------------------------------------------------------------------
\* C3, as claimed: a delete request whose ids are all ids of existing rows
\* removes exactly those rows and no others, and the ip_history list of its
\* response is exactly the remaining rows, newest first.
DeleteRemovesExactlyThoseRows ==
  [][\A r \in Req :
       /\ ( /\ route[r] = "delete" /\ Leaves(r, "deleteExec")
            /\ IdsOf(r) \subseteq {h.id : h \in ip_history} )
          => ip_history' = {h \in ip_history : h.id \notin IdsOf(r)}
       /\ ( /\ route[r] = "delete" /\ Leaves(r, "deleteSelect")
            /\ {h.id : h \in obs[r].removed} = IdsOf(r) )
          => /\ res'[r].status = 200
             /\ ListsTheTable(res'[r].ip_history)
             /\ IsNewestFirst(res'[r].ip_history)]_vars

\* C3, as amended: a delete request whose ids are all ids of existing rows
\* removes exactly those rows and no others when its DELETE statement
\* succeeds, and when it answers 200 the ip_history list of its response is
\* exactly the rows the table holds at the re-read, newest first.
DeleteRemovesThoseRowsOnSuccess ==
  [][\A r \in Req :
       /\ ( /\ route[r] = "delete" /\ Moves(r, "deleteExec", "deleteSelect")
            /\ IdsOf(r) \subseteq {h.id : h \in ip_history} )
          => /\ ip_history' = {h \in ip_history : h.id \notin IdsOf(r)}
             /\ {h.id : h \in ip_history \ ip_history'} = IdsOf(r)
       /\ ( /\ route[r] = "delete" /\ Moves(r, "deleteSelect", "done")
            /\ res'[r].status = 200
            /\ {h.id : h \in obs[r].removed} = IdsOf(r) )
          => /\ ListsTheTable(res'[r].ip_history)
             /\ IsNewestFirst(res'[r].ip_history)
             /\ \A i \in 1..Len(res'[r].ip_history) :
                  res'[r].ip_history[i].id \notin IdsOf(r)]_vars

\* a delete of two existing rows has been answered with the rows that remain
DeleteAnsweredWithRemainder ==
  \E r \in Req :
    /\ Answered(r, "delete") /\ res[r].status = 200
    /\ Cardinality(obs[r].removed) = 2
    /\ {h.id : h \in obs[r].removed} = IdsOf(r)
    /\ Len(res[r].ip_history) >= 1

---------------------------------------------------------------------------
\* C4: a delete request whose ids is not an array, is an empty array or holds
\* no element that coerces to a positive integer is answered 400 without any
\* statement (schema initialization included) having been issued for it, so
\* that ip_history is as it was.
NoPositiveInteger(ids) ==
  \/ ids.t # "array"
  \/ \A i \in 1..Len(ids.c) :
       ~(Number(ids.c[i]).k = "int" /\ Number(ids.c[i]).v > 0)

DeleteRejectsBadIds ==
  \A r \in Req :
    (Answered(r, "delete") /\ NoPositiveInteger(body[r].ids)) =>
      res[r].status = 400 /\ obs[r].calls = {}

\* an array of ids none of which is valid has been rejected over a history
\* that holds rows
DeleteRejectedInvalidIds ==
  \E r \in Req :
    /\ Answered(r, "delete") /\ res[r].status = 400
    /\ body[r].ids.t = "array" /\ Len(body[r].ids.c) >= 1
    /\ ip_history # {}

---------------------------------------------------------------------------
\* C5: the outcome of a login is a function of its body and the users table:
\* 400 if email or password is missing; else 401 if no row has that email;
\* else 401 if the password does not match the stored hash; else 200 with a
\* user object of exactly id and email.
LoginExpected(b) ==
  IF Falsy(b.email) \/ Falsy(b.password) THEN 400
  ELSE IF \A u \in users : u.email # b.email.c THEN 401
  ELSE IF \E u \in users :
            u.email = b.email.c /\ u.password # Hash(b.password.c) THEN 401
  ELSE 200

LoginOutcomeIsDetermined ==
  \A r \in Req :
    Answered(r, "login") =>
      /\ res[r].status = LoginExpected(body[r])
      /\ res[r].status = 200 =>
           /\ Len(res[r].user) = 1
           /\ DOMAIN res[r].user[1] = {"id", "email"}
           /\ res[r].user[1].email = body[r].email.c

---------------------------------------------------------------------------
---------------------------------------------------------------------------
\* C7: once initDb has completed, the users table holds the seed row and
\* nothing else, whatever ran since: more runs of initDb, one after another
\* or overlapping, and any request of any route.
SeedUserIsTheOnlyRow ==
  initialized =>
    users = {[id |-> 1, email |-> SeedEmail, password |-> Hash(SeedPassword)]}

\* initDb has run to its end twice
InitDbRanTwice == initialized /\ flagSets >= 2 /\ Cardinality(users) = 1

---------------------------------------------------------------------------
\* C8, as claimed: a request adds a history row exactly when it is a search
\* whose geolocation call succeeded, and then it adds one.
HistoryRowPerSuccessfulGeo ==
  \A r \in Req :
    pc[r] = "done" =>
      obs[r].added = IF route[r] = "search" /\ obs[r].geoOk THEN 1 ELSE 0

\* C8, as amended: rows are added to ip_history only by the INSERT of a search
\* request, which runs at most once per request and only after its
\* geolocation call succeeded, and adds exactly one row; so a search adds one
\* row when its geolocation call and its INSERT succeed, and a search whose
\* geolocation call or INSERT fails and every login, home, lookup and delete
\* request add none.
HistoryRowPerSuccessfulInsert ==
  [][LET Added == ip_history' \ ip_history
     IN /\ Added # {} =>
             /\ Cardinality(Added) = 1
             /\ \E r \in Req :
                  /\ route[r] = "search"
                  /\ Moves(r, "searchInsert", "searchSelect")
                  /\ obs[r].geoOk
                  /\ "INSERT ip_history" \notin obs[r].calls
        /\ \A r \in Req :
             /\ Moves(r, "searchInsert", "searchSelect") => Added # {}
             /\ pc'[r] = "done" =>
                  obs'[r].added =
                    IF /\ route'[r] = "search"
                       /\ obs'[r].geoOk
                       /\ "INSERT ip_history" \in obs'[r].calls
                    THEN 1 ELSE 0]_vars

\* a search has added its row and been answered 200
SearchAddedItsRow ==
  \E r \in Req :
    /\ Answered(r, "search") /\ res[r].status = 200
    /\ obs[r].geoOk /\ obs[r].added = 1

---------------------------------------------------------------------------
\* C9: `initialized = true`, with the statements it guards, is executed by at
\* most one call of initDb in the life of the process.
InitializedSetAtMostOnce == flagSets <= 1

---------------------------------------------------------------------------
\* C10: the history a search answers 200 with is the table in a state no
\* older than the one just before the INSERT of that request (while, as the
\* witness shows, a search may have inserted its row and yet answer 500).
SearchAnswerNotOlderThanInsert ==
  \A r \in Req :
    (Answered(r, "search") /\ res[r].status = 200) =>
      obs[r].vPre >= 0 /\ obs[r].vRead >= obs[r].vPre

\* a search is answered 500 while its row, the last one inserted, is in the
\* table
SearchFailedAfterItsInsert ==
  \E r \in Req :
    /\ Answered(r, "search") /\ res[r].status = 500
    /\ "INSERT ip_history" \in obs[r].calls
    /\ histVersion = obs[r].vPre + 1
    /\ \E h \in ip_history :
         h.id = historySeq /\ h.ip_address = loc[r].ipData[1].ip

=============================================================================
